---- MODULE Spec2Model ----
(***************************************************************************)
(* Thermostat controller of src/SerialLightControl-Server.py (the          *)
(* "Thermostat" part, lines 116-447): the TemperatureMachine state         *)
(* machine, its button handlers, updateLights, and the manageMyDisplay     *)
(* refresh thread.  Every attribute read and write of the Python code is   *)
(* one step, so that threads interleave between them.                      *)
(***************************************************************************)
EXTENDS Integers, Sequences, FiniteSets, TLC

VARIABLES
    mode,        \* TemperatureMachine.current_state.id : "off" | "heat" | "cool"
    setPoint,    \* TemperatureMachine.setPoint
    redLight,    \* PWMLED(18): "off" | "on" | "pulse"
    blueLight,   \* PWMLED(23)
    endDisplay,  \* TemperatureMachine.endDisplay
    thSensor,    \* thSensor.temperature, in tenths of a degree Celsius
    pc,          \* position of each thread
    ret,         \* where a thread's running updateLights() returns to
    temp,        \* local `temp` of updateLights / manageMyDisplay, per thread
    tmp,         \* value a thread has loaded from self.setPoint
    src,         \* state a thread has loaded from self.current_state (cycle's source state)
    counter,     \* manageMyDisplay: counter
    altCounter,  \* manageMyDisplay: altCounter
    line2,       \* manageMyDisplay: lcd_line_2 as composed in this iteration
    lcd,         \* what the LCD shows (line 2), "torn down" after cleanupDisplay
    uart,        \* ser.write calls, oldest first: the tick, the message, whether it succeeded
    mainpc,      \* position of the main thread (lines 435-447)
    tick,        \* iterations of the manageMyDisplay loop started so far
    nPeriodic,   \* updateLights() calls made from inside the loop (line 391)
    nCycle,      \* processTempStateButton calls made so far
    presses,     \* button events delivered so far
    base,        \* mode, setPoint and the operations begun since the handlers were last all idle
    srv          \* the serial light-control server loop (lines 63-108): its position,
                 \* repeat, command, GPIO line 18, GPIO.cleanup() calls, lines read

vars == <<mode, setPoint, redLight, blueLight, endDisplay, thSensor, pc, ret,
          temp, tmp, src, counter, altCounter, line2, lcd, uart, mainpc, tick,
          nPeriodic, nCycle, presses, base, srv>>

(***************************************************************************)
(* Bounds of the model.                                                    *)
(***************************************************************************)
MaxPresses == 1     \* button events while the refresh thread runs
MaxCycles == 7      \* processTempStateButton calls in the sequential one
MaxTicks == 61      \* loop iterations of the refresh thread
MaxCommands == 3    \* lines the server loop reads

(***************************************************************************)
(* Constants of the program.                                               *)
(***************************************************************************)
DefaultSetPoint == 72
UpperBound == 90
LowerBound == 40
TempViewLimit == 6
RefreshLimit == 11
UartPeriod == 30

Modes == {"off", "heat", "cool"}
Handlers == {"h1", "h2"}
Threads == Handlers \cup {"disp"}

\* Readings of the AHT sensor (tenths of a degree Celsius): 22.0, 22.5, 23.0,
\* which getFahrenheit turns into 71, 72 and 73.
Readings == {220, 225, 230}

\* Readings for the exhaustive check of updateLights: 3.5 C to 33.5 C in
\* steps of half a degree, i.e. every Fahrenheit integer from 38 to 92.
PolicyReadings == {c \in 35..335 : c % 5 = 0}

\* getFahrenheit followed by floor(): floor(9/5 * c + 32), c = r / 10.
FloorFahrenheit(r) == ((9 * r) \div 50) + 32

\* The transition table of `cycle`.
NextModeSwapped(m) == CASE m = "off" -> "cool" [] m = "cool" -> "heat" [] OTHER -> "off"
NextMode(m) == CASE m = "off" -> "heat" [] m = "heat" -> "cool" [] OTHER -> "off"

\* min(self.setPoint, 90) and max(self.setPoint, 40)
ClampHighOffByOne(x) == IF x < UpperBound + 1 THEN x ELSE UpperBound + 1
ClampHigh(x) == IF x < UpperBound THEN x ELSE UpperBound
ClampLow(x) == IF x > LowerBound THEN x ELSE LowerBound

\* The instruction updateLights gives the red light in HEAT, the blue in COOL.
HeatDriveNotStrict(t, sp) == IF t <= sp THEN "pulse" ELSE "on"
HeatDrive(t, sp) == IF t < sp THEN "pulse" ELSE "on"
CoolDrive(t, sp) == IF t > sp THEN "pulse" ELSE "on"

Idle(t) == pc[t] = "idle"
AllIdle == \A h \in Handlers : Idle(h)

Goto(t, l) == pc' = [pc EXCEPT ![t] = l]

(***************************************************************************)
(* The serial light-control server (lines 1-108, a program of its own).    *)
(* A line is the sequence of its characters; BadByte stands for a byte     *)
(* that is not valid UTF-8.                                                *)
(***************************************************************************)
BadByte == "<bad>"

\* The lines ser.readline() returns: b"" on the 1-second timeout, a blank
\* line, and commands in several spellings.
RawLines ==
    { <<>>,
      <<"\n">>,
      <<"o", "n", "\n">>,
      <<"O", "n", "\r", "\n">>,
      <<"o", BadByte, "n", "\n">>,
      <<"o", "f", "f", "\n">>,
      <<" ", "O", "F", "F", "\n">>,
      <<"e", "x", "i", "t", "\n">>,
      <<"Q", "u", "i", "t", " ", "\n">>,
      <<"o", "n", "e", "\n">>,
      <<"o", " ", "n", "\n">> }

\* line 73: .decode("utf-8", errors="ignore") drops the malformed bytes
Decode(l) == SelectSeq(l, LAMBDA c : c # BadByte)

LowerChar(c) ==
    CASE c = "O" -> "o" [] c = "N" -> "n" [] c = "F" -> "f" [] c = "E" -> "e"
      [] c = "X" -> "x" [] c = "I" -> "i" [] c = "T" -> "t" [] c = "Q" -> "q"
      [] c = "U" -> "u" [] OTHER -> c

\* line 73: .lower()
Lower(l) == [i \in DOMAIN l |-> LowerChar(l[i])]

Whitespace == {" ", "\n", "\r", "\t"}

RECURSIVE LStrip(_)
LStrip(l) == IF l # <<>> /\ Head(l) \in Whitespace THEN LStrip(Tail(l)) ELSE l

RECURSIVE RStrip(_)
RStrip(l) ==
    IF l # <<>> /\ l[Len(l)] \in Whitespace THEN RStrip(SubSeq(l, 1, Len(l) - 1)) ELSE l

\* line 73: .strip()
Strip(l) == RStrip(LStrip(l))

\* lines 60-66: GPIO line 18 set up as an output and not yet written, repeat = True
SrvInit ==
    [pc |-> "test", repeat |-> TRUE, command |-> <<>>, led |-> "initial",
     cleaned |-> 0, lines |-> <<>>, intr |-> FALSE]

InitCommon ==
    /\ mode = "off"
    /\ setPoint = DefaultSetPoint
    /\ redLight = "off"
    /\ blueLight = "off"
    /\ endDisplay = FALSE
    /\ srv = SrvInit
    /\ thSensor \in Readings
    /\ pc = [t \in Threads |-> IF t = "disp" THEN "d_start" ELSE "idle"]
    /\ ret = [t \in Threads |-> "none"]
    /\ temp = [t \in Threads |-> 0]
    /\ tmp = [t \in Threads |-> 0]
    /\ src = [t \in Threads |-> "none"]
    /\ counter = 1
    /\ altCounter = 1
    /\ line2 = <<>>
    /\ lcd = <<>>
    /\ uart = <<>>
    /\ mainpc = "sleep"
    /\ tick = 0
    /\ nPeriodic = 0
    /\ nCycle = 0
    /\ presses = 0
    /\ base = [mode |-> "off", setPoint |-> DefaultSetPoint,
               ops |-> [cycle |-> 0, inc |-> 0, dec |-> 0], overlap |-> FALSE]

Init == InitCommon

ctlVars == <<mode, setPoint>>
lightVars == <<redLight, blueLight>>
localVars == <<temp, tmp, src>>
dispVars == <<counter, altCounter, line2, lcd, uart, tick, nPeriodic>>
envVars == <<endDisplay, thSensor, mainpc, srv>>
histVars == <<nCycle, presses, base>>

(***************************************************************************)
(* Button events: gpiozero runs the when_pressed callback of a button.     *)
(* `base` remembers the mode and set point from which the handlers now     *)
(* running started, and which operations have begun since.                 *)
(***************************************************************************)
NoOps == [cycle |-> 0, inc |-> 0, dec |-> 0]

Begin(t, o, l) ==
    /\ Idle(t)
    /\ pc' = [pc EXCEPT ![t] = l]
    /\ base' = IF AllIdle
               THEN [mode |-> mode, setPoint |-> setPoint,
                     ops |-> [NoOps EXCEPT ![o] = 1], overlap |-> FALSE]
               ELSE [base EXCEPT !.ops[o] = @ + 1, !.overlap = TRUE]
    /\ UNCHANGED <<ctlVars, lightVars, localVars, ret, dispVars, envVars>>

PressCycle(t) ==
    /\ presses < MaxPresses
    /\ Begin(t, "cycle", "cy_read")
    /\ presses' = presses + 1
    /\ nCycle' = nCycle + 1

PressInc(t) ==
    /\ presses < MaxPresses
    /\ Begin(t, "inc", "inc_read")
    /\ presses' = presses + 1
    /\ UNCHANGED nCycle

PressDec(t) ==
    /\ presses < MaxPresses
    /\ Begin(t, "dec", "dec_read")
    /\ presses' = presses + 1
    /\ UNCHANGED nCycle

(***************************************************************************)
(* updateLights(), run by thread t.  The last step of each path returns:   *)
(* the thread continues at ret[t]; a return into processTempStateButton    *)
(* (from on_enter_heat / on_enter_cool, line 277) continues with the call  *)
(* of updateLights on line 278.                                            *)
(***************************************************************************)
CallUpdateLightsDeferred(t, r) ==
    /\ pc' = [pc EXCEPT ![t] = IF r = "idle" THEN "idle" ELSE "ul_temp"]
    /\ ret' = [ret EXCEPT ![t] = IF r = "idle" THEN "none" ELSE r]

CallUpdateLights(t, r) ==
    /\ pc' = [pc EXCEPT ![t] = "ul_temp"]
    /\ ret' = [ret EXCEPT ![t] = r]

Return(t) ==
    /\ pc' = [pc EXCEPT ![t] = IF ret[t] = "cy_after" THEN "ul_temp" ELSE ret[t]]
    /\ ret' = [ret EXCEPT ![t] = IF ret[t] = "cy_after" THEN "idle" ELSE "none"]
    /\ temp' = [temp EXCEPT ![t] = 0]
    /\ tmp' = [tmp EXCEPT ![t] = 0]
    /\ src' = [src EXCEPT ![t] = IF ret[t] = "idle" THEN "none" ELSE @]

UlTemp(t) ==
    /\ pc[t] = "ul_temp"
    /\ temp' = [temp EXCEPT ![t] = FloorFahrenheit(thSensor)]
    /\ Goto(t, "ul_red_off")
    /\ UNCHANGED <<ctlVars, lightVars, tmp, src, ret, dispVars, envVars, histVars>>

UlRedOff(t) ==
    /\ pc[t] = "ul_red_off"
    /\ redLight' = "off"
    /\ Goto(t, "ul_blue_off")
    /\ UNCHANGED <<ctlVars, blueLight, localVars, ret, dispVars, envVars, histVars>>

UlBlueOff(t) ==
    /\ pc[t] = "ul_blue_off"
    /\ blueLight' = "off"
    /\ Goto(t, "ul_is_off")
    /\ UNCHANGED <<ctlVars, redLight, localVars, ret, dispVars, envVars, histVars>>

UlIsOff(t) ==
    /\ pc[t] = "ul_is_off"
    /\ Goto(t, IF mode = "off" THEN "ul_off_red" ELSE "ul_is_heat")
    /\ UNCHANGED <<ctlVars, lightVars, localVars, ret, dispVars, envVars, histVars>>

UlOffRed(t) ==
    /\ pc[t] = "ul_off_red"
    /\ redLight' = "off"
    /\ Goto(t, "ul_off_blue")
    /\ UNCHANGED <<ctlVars, blueLight, localVars, ret, dispVars, envVars, histVars>>

UlOffBlue(t) ==
    /\ pc[t] = "ul_off_blue"
    /\ blueLight' = "off"
    /\ Return(t)
    /\ UNCHANGED <<ctlVars, redLight, dispVars, envVars, histVars>>

UlIsHeat(t) ==
    /\ pc[t] = "ul_is_heat"
    /\ Goto(t, IF mode = "heat" THEN "ul_heat_read" ELSE "ul_is_cool")
    /\ UNCHANGED <<ctlVars, lightVars, localVars, ret, dispVars, envVars, histVars>>

UlHeatRead(t) ==
    /\ pc[t] = "ul_heat_read"
    /\ tmp' = [tmp EXCEPT ![t] = setPoint]
    /\ Goto(t, "ul_heat_drive")
    /\ UNCHANGED <<ctlVars, lightVars, temp, src, ret, dispVars, envVars, histVars>>

UlHeatDrive(t) ==
    /\ pc[t] = "ul_heat_drive"
    /\ redLight' = HeatDrive(temp[t], tmp[t])
    /\ Goto(t, "ul_heat_blue")
    /\ UNCHANGED <<ctlVars, blueLight, localVars, ret, dispVars, envVars, histVars>>

UlHeatBlue(t) ==
    /\ pc[t] = "ul_heat_blue"
    /\ blueLight' = "off"
    /\ Return(t)
    /\ UNCHANGED <<ctlVars, redLight, dispVars, envVars, histVars>>

UlIsCool(t) ==
    /\ pc[t] = "ul_is_cool"
    /\ IF mode = "cool"
       THEN Goto(t, "ul_cool_read") /\ UNCHANGED <<localVars, ret>>
       ELSE Return(t)
    /\ UNCHANGED <<ctlVars, lightVars, dispVars, envVars, histVars>>

UlCoolRead(t) ==
    /\ pc[t] = "ul_cool_read"
    /\ tmp' = [tmp EXCEPT ![t] = setPoint]
    /\ Goto(t, "ul_cool_drive")
    /\ UNCHANGED <<ctlVars, lightVars, temp, src, ret, dispVars, envVars, histVars>>

UlCoolDrive(t) ==
    /\ pc[t] = "ul_cool_drive"
    /\ blueLight' = CoolDrive(temp[t], tmp[t])
    /\ Goto(t, "ul_cool_red")
    /\ UNCHANGED <<ctlVars, redLight, localVars, ret, dispVars, envVars, histVars>>

UlCoolRed(t) ==
    /\ pc[t] = "ul_cool_red"
    /\ redLight' = "off"
    /\ Return(t)
    /\ UNCHANGED <<ctlVars, blueLight, dispVars, envVars, histVars>>

updateLights(t) ==
    \/ UlTemp(t) \/ UlRedOff(t) \/ UlBlueOff(t) \/ UlIsOff(t) \/ UlOffRed(t)
    \/ UlOffBlue(t) \/ UlIsHeat(t) \/ UlHeatRead(t) \/ UlHeatDrive(t)
    \/ UlHeatBlue(t) \/ UlIsCool(t) \/ UlCoolRead(t) \/ UlCoolDrive(t)
    \/ UlCoolRed(t)

(***************************************************************************)
(* processTempStateButton: self.cycle() picks the transition leaving the   *)
(* current state, runs on_exit_<source>, sets the state, runs              *)
(* on_enter_<target>; then updateLights() again (line 278).                *)
(***************************************************************************)
CycleRead(t) ==
    /\ pc[t] = "cy_read"
    /\ src' = [src EXCEPT ![t] = mode]
    /\ Goto(t, "cy_exit")
    /\ UNCHANGED <<ctlVars, lightVars, temp, tmp, ret, dispVars, envVars, histVars>>

\* The transition without its on_exit hooks.
CycleExitWithoutHooks(t) ==
    /\ pc[t] = "cy_exit"
    /\ pc' = [pc EXCEPT ![t] = "cy_set"]
    /\ UNCHANGED <<ctlVars, lightVars, localVars, ret, dispVars, envVars, histVars>>

CycleExit(t) ==
    /\ pc[t] = "cy_exit"
    /\ redLight' = IF src[t] = "heat" THEN "off" ELSE redLight
    /\ blueLight' = IF src[t] = "cool" THEN "off" ELSE blueLight
    /\ Goto(t, "cy_set")
    /\ UNCHANGED <<ctlVars, localVars, ret, dispVars, envVars, histVars>>

\* A cycle that writes the whole controller state back, with the set point
\* as it was when the handlers started.
CycleSetWritesBack(t) ==
    /\ pc[t] = "cy_set"
    /\ mode' = NextMode(src[t])
    /\ setPoint' = base.setPoint
    /\ Goto(t, "cy_enter")
    /\ UNCHANGED <<lightVars, localVars, ret, dispVars, envVars, histVars>>

CycleSet(t) ==
    /\ pc[t] = "cy_set"
    /\ mode' = NextMode(src[t])
    /\ Goto(t, "cy_enter")
    /\ UNCHANGED <<setPoint, lightVars, localVars, ret, dispVars, envVars, histVars>>

CycleEnter(t) ==
    /\ pc[t] = "cy_enter"
    /\ IF NextMode(src[t]) = "off"
       THEN /\ redLight' = "off"
            /\ Goto(t, "cy_enter_off")
            /\ UNCHANGED ret
       ELSE /\ CallUpdateLights(t, "cy_after")
            /\ UNCHANGED redLight
    /\ UNCHANGED <<ctlVars, blueLight, localVars, dispVars, envVars, histVars>>

CycleEnterOff(t) ==
    /\ pc[t] = "cy_enter_off"
    /\ blueLight' = "off"
    /\ CallUpdateLights(t, "idle")
    /\ UNCHANGED <<ctlVars, redLight, localVars, dispVars, envVars, histVars>>

processTempStateButton(t) ==
    \/ CycleRead(t) \/ CycleExit(t) \/ CycleSet(t) \/ CycleEnter(t) \/ CycleEnterOff(t)

(***************************************************************************)
(* processTempIncButton / processTempDecButton: `self.setPoint += 1` is a  *)
(* load and a store, `self.setPoint = min(self.setPoint, 90)` another load *)
(* and store.                                                              *)
(***************************************************************************)
IncRead(t) ==
    /\ pc[t] = "inc_read"
    /\ tmp' = [tmp EXCEPT ![t] = setPoint]
    /\ Goto(t, "inc_write")
    /\ UNCHANGED <<ctlVars, lightVars, temp, src, ret, dispVars, envVars, histVars>>

IncWrite(t) ==
    /\ pc[t] = "inc_write"
    /\ setPoint' = tmp[t] + 1
    /\ Goto(t, "inc_read2")
    /\ UNCHANGED <<mode, lightVars, localVars, ret, dispVars, envVars, histVars>>

IncRead2(t) ==
    /\ pc[t] = "inc_read2"
    /\ tmp' = [tmp EXCEPT ![t] = setPoint]
    /\ Goto(t, "inc_clamp")
    /\ UNCHANGED <<ctlVars, lightVars, temp, src, ret, dispVars, envVars, histVars>>

IncClamp(t) ==
    /\ pc[t] = "inc_clamp"
    /\ setPoint' = ClampHigh(tmp[t])
    /\ CallUpdateLights(t, "idle")
    /\ UNCHANGED <<mode, lightVars, localVars, dispVars, envVars, histVars>>

processTempIncButton(t) ==
    \/ IncRead(t) \/ IncWrite(t) \/ IncRead2(t) \/ IncClamp(t)

DecRead(t) ==
    /\ pc[t] = "dec_read"
    /\ tmp' = [tmp EXCEPT ![t] = setPoint]
    /\ Goto(t, "dec_write")
    /\ UNCHANGED <<ctlVars, lightVars, temp, src, ret, dispVars, envVars, histVars>>

DecWrite(t) ==
    /\ pc[t] = "dec_write"
    /\ setPoint' = tmp[t] - 1
    /\ Goto(t, "dec_read2")
    /\ UNCHANGED <<mode, lightVars, localVars, ret, dispVars, envVars, histVars>>

DecRead2(t) ==
    /\ pc[t] = "dec_read2"
    /\ tmp' = [tmp EXCEPT ![t] = setPoint]
    /\ Goto(t, "dec_clamp")
    /\ UNCHANGED <<ctlVars, lightVars, temp, src, ret, dispVars, envVars, histVars>>

DecClamp(t) ==
    /\ pc[t] = "dec_clamp"
    /\ setPoint' = ClampLow(tmp[t])
    /\ CallUpdateLights(t, "idle")
    /\ UNCHANGED <<mode, lightVars, localVars, dispVars, envVars, histVars>>

processTempDecButton(t) ==
    \/ DecRead(t) \/ DecWrite(t) \/ DecRead2(t) \/ DecClamp(t)

\* The sensor's reading changes.
SensorChange ==
    /\ \E r \in Readings \ {thSensor} : thSensor' = r
    /\ UNCHANGED <<ctlVars, lightVars, localVars, pc, ret, dispVars, endDisplay,
                   mainpc, srv, histVars>>

(***************************************************************************)
(* manageMyDisplay, the refresh thread "disp".                             *)
(***************************************************************************)
Upper(m) == CASE m = "off" -> "OFF" [] m = "heat" -> "HEAT" [] m = "cool" -> "COOL"

\* altCounter < 6: line 2 shows the temperature
ShowTempViewOneLess(alt) == alt < TempViewLimit - 1
ShowTempView(alt) == alt < TempViewLimit

\* altCounter >= 11: refresh the LEDs and restart the alternation
RefreshDueOneEarly(alt) == alt >= RefreshLimit - 1
RefreshDue(alt) == alt >= RefreshLimit

\* (counter % 30) == 0
UartDueCountingFromZero(c) == (c + 1) % UartPeriod = 0
UartDue(c) == c % UartPeriod = 0

\* line 365: updateLights() before the loop
DStart ==
    /\ pc["disp"] = "d_start"
    /\ CallUpdateLights("disp", "d_loop")
    /\ UNCHANGED <<ctlVars, lightVars, localVars, dispVars, envVars, histVars>>

\* line 367: while not self.endDisplay (after the sleep(1) of the iteration before)
DLoop ==
    /\ pc["disp"] = "d_loop"
    /\ IF endDisplay
       THEN Goto("disp", "d_cleanup") /\ UNCHANGED tick
       ELSE tick < MaxTicks /\ Goto("disp", "d_line2") /\ tick' = tick + 1
    /\ UNCHANGED <<ctlVars, lightVars, localVars, ret, counter, altCounter, line2,
                   lcd, uart, nPeriodic, envVars, histVars>>

\* lines 378-382: the temperature view
DTempView ==
    /\ pc["disp"] = "d_line2"
    /\ ShowTempView(altCounter)
    /\ line2' = <<"Temp:", FloorFahrenheit(thSensor), "F">>
    /\ altCounter' = altCounter + 1
    /\ Goto("disp", "d_screen")
    /\ UNCHANGED <<ctlVars, lightVars, localVars, ret, counter, lcd, uart, tick,
                   nPeriodic, envVars, histVars>>

\* line 385: mode = self.current_state.id.upper()
DModeRead ==
    /\ pc["disp"] = "d_line2"
    /\ ~ShowTempView(altCounter)
    /\ src' = [src EXCEPT !["disp"] = mode]
    /\ Goto("disp", "d_setpoint")
    /\ UNCHANGED <<ctlVars, lightVars, temp, tmp, ret, dispVars, envVars, histVars>>

\* lines 386-391: the mode and set point view; updateLights() when due
DModeView ==
    /\ pc["disp"] = "d_setpoint"
    /\ line2' = <<Upper(src["disp"]), "SP:", setPoint, "F">>
    /\ altCounter' = altCounter + 1
    /\ src' = [src EXCEPT !["disp"] = "none"]
    /\ IF RefreshDue(altCounter + 1)
       THEN CallUpdateLights("disp", "d_alt_reset") /\ nPeriodic' = nPeriodic + 1
       ELSE Goto("disp", "d_screen") /\ UNCHANGED <<ret, nPeriodic>>
    /\ UNCHANGED <<ctlVars, lightVars, temp, tmp, counter, lcd, uart, tick,
                   envVars, histVars>>

\* line 392: altCounter = 1
DAltReset ==
    /\ pc["disp"] = "d_alt_reset"
    /\ altCounter' = 1
    /\ Goto("disp", "d_screen")
    /\ UNCHANGED <<ctlVars, lightVars, localVars, ret, counter, line2, lcd, uart,
                   tick, nPeriodic, envVars, histVars>>

\* line 394: screen.updateScreen(lcd_line_1 + lcd_line_2)
DScreen ==
    /\ pc["disp"] = "d_screen"
    /\ lcd' = line2
    /\ line2' = <<>>
    /\ Goto("disp", "d_uart")
    /\ UNCHANGED <<ctlVars, lightVars, localVars, ret, counter, altCounter,
                   uart, tick, nPeriodic, envVars, histVars>>

\* lines 400 and 411: no telegram in this iteration; sleep(1)
DNoUart ==
    /\ pc["disp"] = "d_uart"
    /\ ~UartDue(counter)
    /\ counter' = counter + 1
    /\ Goto("disp", "d_loop")
    /\ UNCHANGED <<ctlVars, lightVars, localVars, ret, altCounter, line2, lcd, uart,
                   tick, nPeriodic, envVars, histVars>>

\* lines 400-401, setupSerialOutput line 344: state = self.current_state.id.upper()
DMsgState ==
    /\ pc["disp"] = "d_uart"
    /\ UartDue(counter)
    /\ src' = [src EXCEPT !["disp"] = mode]
    /\ Goto("disp", "d_msg_temp")
    /\ UNCHANGED <<ctlVars, lightVars, temp, tmp, ret, dispVars, envVars, histVars>>

\* setupSerialOutput line 345: temp = floor(self.getFahrenheit())
DMsgTemp ==
    /\ pc["disp"] = "d_msg_temp"
    /\ temp' = [temp EXCEPT !["disp"] = FloorFahrenheit(thSensor)]
    /\ Goto("disp", "d_write")
    /\ UNCHANGED <<ctlVars, lightVars, tmp, src, ret, dispVars, envVars, histVars>>

\* f"{n}" for an integer n >= 0: its decimal digits
Digit(d) == <<"0", "1", "2", "3", "4", "5", "6", "7", "8", "9">>[d + 1]

RECURSIVE Decimal(_)
Decimal(n) == IF n < 10 THEN <<Digit(n)>> ELSE Decimal(n \div 10) \o <<Digit(n % 10)>>

\* self.current_state.id.upper(), character by character
UpperChars(m) ==
    CASE m = "off" -> <<"O", "F", "F">>
      [] m = "heat" -> <<"H", "E", "A", "T">>
      [] m = "cool" -> <<"C", "O", "O", "L">>

\* setupSerialOutput line 346: f"{state},{temp},{self.setPoint}"
setupSerialOutputSpaced(st, t, sp) ==
    UpperChars(st) \o <<",", " ">> \o Decimal(t) \o <<",", " ">> \o Decimal(sp)

setupSerialOutput(st, t, sp) ==
    UpperChars(st) \o <<",">> \o Decimal(t) \o <<",">> \o Decimal(sp)

\* The same with `counter = 1` inside the try block, skipped when the write raises.
DWriteResetInTry ==
    /\ pc["disp"] = "d_write"
    /\ \E ok \in BOOLEAN :
          /\ uart' = Append(uart, [tick |-> tick, ok |-> ok,
                                   msg |-> setupSerialOutput(src["disp"], temp["disp"],
                                                             setPoint) \o <<"\n">>])
          /\ counter' = IF ok THEN 1 ELSE counter
    /\ temp' = [temp EXCEPT !["disp"] = 0]
    /\ src' = [src EXCEPT !["disp"] = "none"]
    /\ pc' = [pc EXCEPT !["disp"] = "d_loop"]
    /\ UNCHANGED <<mode, setPoint, redLight, blueLight, tmp, ret, altCounter, line2,
                   lcd, tick, nPeriodic, endDisplay, thSensor, mainpc, nCycle,
                   presses, base, srv>>

\* setupSerialOutput line 346 and lines 401-409: the message is composed with
\* self.setPoint and written; the write succeeds or raises (ok), and
\* counter = 1 either way; sleep(1)
DWrite ==
    /\ pc["disp"] = "d_write"
    /\ \E ok \in BOOLEAN :
          uart' = Append(uart, [tick |-> tick, ok |-> ok,
                                msg |-> setupSerialOutput(src["disp"], temp["disp"], setPoint)
                                            \o <<"\n">>])
    /\ counter' = 1
    /\ temp' = [temp EXCEPT !["disp"] = 0]
    /\ src' = [src EXCEPT !["disp"] = "none"]
    /\ Goto("disp", "d_loop")
    /\ UNCHANGED <<ctlVars, lightVars, tmp, ret, altCounter, line2, lcd, tick,
                   nPeriodic, envVars, histVars>>

\* A teardown that also puts the machine back in its initial state.
DCleanupResetsMode ==
    /\ pc["disp"] = "d_cleanup"
    /\ lcd' = <<"torn down">>
    /\ mode' = "off"
    /\ Goto("disp", "d_done")
    /\ UNCHANGED <<setPoint, lightVars, localVars, ret, counter, altCounter, line2,
                   uart, tick, nPeriodic, envVars, histVars>>

\* line 416: screen.cleanupDisplay()
DCleanup ==
    /\ pc["disp"] = "d_cleanup"
    /\ lcd' = <<"torn down">>
    /\ Goto("disp", "d_done")
    /\ UNCHANGED <<ctlVars, lightVars, localVars, ret, counter, altCounter, line2,
                   uart, tick, nPeriodic, envVars, histVars>>

manageMyDisplay ==
    \/ DStart \/ DLoop \/ DTempView \/ DModeRead \/ DModeView \/ DAltReset
    \/ DScreen \/ DNoUart \/ DMsgState \/ DMsgTemp \/ DWrite \/ DCleanup
    \/ updateLights("disp")

(***************************************************************************)
(* The main thread, lines 435-447: on KeyboardInterrupt it sets endDisplay,*)
(* sleeps a second, closes the serial port and the script ends; the        *)
(* refresh thread is a daemon thread and the callbacks run on gpiozero's   *)
(* threads, so nothing runs once the main thread has ended.                *)
(***************************************************************************)
KeyboardInterrupt ==
    /\ mainpc = "sleep"
    /\ endDisplay' = TRUE
    /\ mainpc' = "grace"
    /\ UNCHANGED <<ctlVars, lightVars, localVars, pc, ret, dispVars, thSensor, srv,
                   histVars>>

MainExit ==
    /\ mainpc = "grace"
    /\ mainpc' = "exited"
    /\ UNCHANGED <<ctlVars, lightVars, localVars, pc, ret, dispVars, endDisplay,
                   thSensor, srv, histVars>>

Alive == mainpc # "exited"

(***************************************************************************)
(* The program: the refresh thread, button events handled one after the    *)
(* other on a callback thread, and the main thread, interleaved step by    *)
(* step.  The sensor's reading is any of Readings and stays as it is.      *)
(***************************************************************************)
Next ==
    \/ Alive /\ manageMyDisplay
    \/ \E t \in {"h1"} :
          Alive /\ (\/ PressCycle(t) \/ PressInc(t) \/ PressDec(t)
                    \/ processTempStateButton(t)
                    \/ processTempIncButton(t)
                    \/ processTempDecButton(t)
                    \/ updateLights(t))
    \/ KeyboardInterrupt
    \/ MainExit

Spec == Init /\ [][Next]_vars

(***************************************************************************)
(* The program with failing collaborators: a call of the sensor, the LCD   *)
(* or a light made by the refresh thread raises.  None of these calls is   *)
(* inside a try block (only ser.write is, lines 402-408), so the exception *)
(* leaves manageMyDisplay and the thread ends.                             *)
(***************************************************************************)
RaisePoints ==
    {"d_screen", "d_msg_temp", "ul_temp", "ul_red_off", "ul_blue_off", "ul_off_red",
     "ul_off_blue", "ul_heat_drive", "ul_heat_blue", "ul_cool_drive", "ul_cool_red"}
        \cup (IF ShowTempView(altCounter) THEN {"d_line2"} ELSE {})

DRaise ==
    /\ pc["disp"] \in RaisePoints
    /\ pc' = [pc EXCEPT !["disp"] = "d_raised"]
    /\ UNCHANGED <<ctlVars, lightVars, localVars, ret, dispVars, envVars, histVars>>

NextFail ==
    \/ Next
    \/ Alive /\ DRaise

SpecFail == Init /\ [][NextFail]_vars

(***************************************************************************)
(* Sequential specification: one button handler at a time and nothing     *)
(* else running, any number of set point presses.                          *)
(***************************************************************************)
SeqPressCycle ==
    /\ nCycle < MaxCycles
    /\ Begin("h1", "cycle", "cy_read")
    /\ nCycle' = nCycle + 1
    /\ UNCHANGED presses

SeqPressInc == Begin("h1", "inc", "inc_read") /\ UNCHANGED <<nCycle, presses>>

SeqPressDec == Begin("h1", "dec", "dec_read") /\ UNCHANGED <<nCycle, presses>>

NextSeq ==
    \/ SeqPressCycle
    \/ SeqPressInc
    \/ SeqPressDec
    \/ processTempStateButton("h1")
    \/ processTempIncButton("h1")
    \/ processTempDecButton("h1")
    \/ updateLights("h1")
    \/ SensorChange

SpecSeq == Init /\ [][NextSeq]_vars

(***************************************************************************)
(* Specification of updateLights alone: a handler is about to run it       *)
(* (as after the clamp of a set point press), in any mode, with any set    *)
(* point in range, any reading, and the lights as an earlier evaluation    *)
(* in that mode left them.                                                 *)
(***************************************************************************)
InitPolicy ==
    /\ mode \in Modes
    /\ setPoint \in LowerBound..UpperBound
    /\ thSensor \in PolicyReadings
    /\ redLight \in IF mode = "heat" THEN {"on", "pulse"} ELSE {"off"}
    /\ blueLight \in IF mode = "cool" THEN {"on", "pulse"} ELSE {"off"}
    /\ endDisplay = FALSE
    /\ srv = SrvInit
    /\ pc = [t \in Threads |-> IF t = "disp" THEN "d_start"
                               ELSE IF t = "h1" THEN "ul_temp" ELSE "idle"]
    /\ ret = [t \in Threads |-> IF t = "h1" THEN "idle" ELSE "none"]
    /\ temp = [t \in Threads |-> 0]
    /\ tmp = [t \in Threads |-> 0]
    /\ src = [t \in Threads |-> "none"]
    /\ counter = 1
    /\ altCounter = 1
    /\ line2 = <<>>
    /\ lcd = <<>>
    /\ uart = <<>>
    /\ mainpc = "sleep"
    /\ tick = 0
    /\ nPeriodic = 0
    /\ nCycle = 0
    /\ presses = 1
    /\ base = [mode |-> mode, setPoint |-> setPoint,
               ops |-> [cycle |-> 0, inc |-> 0, dec |-> 0], overlap |-> FALSE]

NextPolicy == updateLights("h1")

SpecPolicy == InitPolicy /\ [][NextPolicy]_vars

(***************************************************************************)
(* Racing button events: from a state at rest (any mode, a set point at or *)
(* next to a bound or the default, the lights as updateLights left them)   *)
(* each of the two callback threads has been handed at most one event and  *)
(* is at the first statement of its handler; their steps interleave.       *)
(***************************************************************************)
StartSetPoints == {LowerBound, LowerBound + 1, DefaultSetPoint, UpperBound - 1, UpperBound}

Entry(o) == CASE o = "cycle" -> "cy_read" [] o = "inc" -> "inc_read"
              [] o = "dec" -> "dec_read" [] OTHER -> "idle"

OpsOf(e) == [o \in {"cycle", "inc", "dec"} |->
                Cardinality({h \in Handlers : e[h] = o})]

InitRace ==
    /\ mode \in Modes
    /\ setPoint \in StartSetPoints
    /\ thSensor \in Readings
    /\ redLight = IF mode = "heat" THEN HeatDrive(FloorFahrenheit(thSensor), setPoint) ELSE "off"
    /\ blueLight = IF mode = "cool" THEN CoolDrive(FloorFahrenheit(thSensor), setPoint) ELSE "off"
    /\ endDisplay = FALSE
    /\ srv = SrvInit
    /\ \E e \in [Handlers -> {"cycle", "inc", "dec", "none"}] :
          /\ \E h \in Handlers : e[h] # "none"
          /\ pc = [t \in Threads |-> IF t = "disp" THEN "d_loop" ELSE Entry(e[t])]
          /\ base = [mode |-> mode, setPoint |-> setPoint, ops |-> OpsOf(e),
                     overlap |-> \A h \in Handlers : e[h] # "none"]
          /\ presses = Cardinality({h \in Handlers : e[h] # "none"})
          /\ nCycle = Cardinality({h \in Handlers : e[h] = "cycle"})
    /\ ret = [t \in Threads |-> "none"]
    /\ temp = [t \in Threads |-> 0]
    /\ tmp = [t \in Threads |-> 0]
    /\ src = [t \in Threads |-> "none"]
    /\ counter = 1
    /\ altCounter = 1
    /\ line2 = <<>>
    /\ lcd = <<>>
    /\ uart = <<>>
    /\ mainpc = "sleep"
    /\ tick = 0
    /\ nPeriodic = 0

NextRace ==
    \E t \in Handlers :
        \/ processTempStateButton(t)
        \/ processTempIncButton(t)
        \/ processTempDecButton(t)
        \/ updateLights(t)

SpecRace == InitRace /\ [][NextRace]_vars

(***************************************************************************)
(* A button event during the 30th tick: the machine is at rest in any mode *)
(* with a set point at or next to a bound or the default, the refresh      *)
(* thread is at the loop test that begins tick 30 (counter = 30,           *)
(* altCounter = 10, the display showing tick 29's mode and set point       *)
(* view), and one callback thread is at the first statement of a handler.  *)
(* The tick shows the mode and set point view, re-evaluates the lights and *)
(* writes a telegram while the handler runs.                               *)
(***************************************************************************)
InitObserve ==
    /\ mode \in Modes
    /\ setPoint \in StartSetPoints
    /\ thSensor \in Readings
    /\ redLight = IF mode = "heat" THEN HeatDrive(FloorFahrenheit(thSensor), setPoint) ELSE "off"
    /\ blueLight = IF mode = "cool" THEN CoolDrive(FloorFahrenheit(thSensor), setPoint) ELSE "off"
    /\ endDisplay = FALSE
    /\ srv = SrvInit
    /\ \E o \in {"cycle", "inc", "dec"} :
          /\ pc = [t \in Threads |-> IF t = "disp" THEN "d_loop"
                                     ELSE IF t = "h1" THEN Entry(o) ELSE "idle"]
          /\ base = [mode |-> mode, setPoint |-> setPoint,
                     ops |-> OpsOf([h \in Handlers |-> IF h = "h1" THEN o ELSE "none"]),
                     overlap |-> FALSE]
          /\ nCycle = IF o = "cycle" THEN 1 ELSE 0
    /\ presses = 1
    /\ ret = [t \in Threads |-> "none"]
    /\ temp = [t \in Threads |-> 0]
    /\ tmp = [t \in Threads |-> 0]
    /\ src = [t \in Threads |-> "none"]
    /\ counter = UartPeriod
    /\ altCounter = RefreshLimit - 1
    /\ line2 = <<>>
    /\ lcd = <<Upper(mode), "SP:", setPoint, "F">>
    /\ uart = <<>>
    /\ mainpc = "sleep"
    /\ tick = UartPeriod - 1
    /\ nPeriodic = 2

NextObserve ==
    \/ /\ pc["disp"] = "d_loop" => tick < UartPeriod
       /\ (\/ DLoop \/ DModeRead \/ DModeView \/ DAltReset \/ DScreen
           \/ DMsgState \/ DMsgTemp \/ DWrite \/ updateLights("disp"))
    \/ \E t \in {"h1"} :
          \/ processTempStateButton(t)
          \/ processTempIncButton(t)
          \/ processTempDecButton(t)
          \/ updateLights(t)

SpecObserve == InitObserve /\ [][NextObserve]_vars

(***************************************************************************)
(* Specification of one telegram: the refresh thread is at line 400 of     *)
(* its 30th tick, in any mode, with any set point in range and any         *)
(* reading, and composes and writes the telegram undisturbed.              *)
(***************************************************************************)
InitTelegram ==
    /\ mode \in Modes
    /\ setPoint \in LowerBound..UpperBound
    /\ thSensor \in PolicyReadings
    /\ redLight = IF mode = "heat" THEN HeatDrive(FloorFahrenheit(thSensor), setPoint) ELSE "off"
    /\ blueLight = IF mode = "cool" THEN CoolDrive(FloorFahrenheit(thSensor), setPoint) ELSE "off"
    /\ endDisplay = FALSE
    /\ srv = SrvInit
    /\ pc = [t \in Threads |-> IF t = "disp" THEN "d_uart" ELSE "idle"]
    /\ ret = [t \in Threads |-> "none"]
    /\ temp = [t \in Threads |-> 0]
    /\ tmp = [t \in Threads |-> 0]
    /\ src = [t \in Threads |-> "none"]
    /\ counter = UartPeriod
    /\ altCounter = 1
    /\ line2 = <<>>
    /\ lcd = <<Upper(mode), "SP:", setPoint, "F">>
    /\ uart = <<>>
    /\ mainpc = "sleep"
    /\ tick = UartPeriod
    /\ nPeriodic = UartPeriod \div (RefreshLimit - 1)
    /\ nCycle = 0
    /\ presses = 0
    /\ base = [mode |-> mode, setPoint |-> setPoint, ops |-> NoOps, overlap |-> FALSE]

NextTelegram == DMsgState \/ DMsgTemp \/ DWrite

SpecTelegram == InitTelegram /\ [][NextTelegram]_vars

(***************************************************************************)
(* The server loop, lines 66-108, a statement per step.  Ctrl-C raises     *)
(* KeyboardInterrupt in the main thread wherever it is: inside the try     *)
(* block (lines 68-100) the handler of lines 102-106 runs, at the loop     *)
(* test of line 66 (to which `continue` and the end of the try statement   *)
(* jump) and inside the handler nothing catches it and the script ends.    *)
(***************************************************************************)
thermoVars == <<ctlVars, lightVars, localVars, pc, ret, dispVars, endDisplay,
                thSensor, mainpc, histVars>>

SrvStep(r) == srv' = r /\ UNCHANGED thermoVars

\* line 66: while repeat
SrvTest ==
    /\ srv.pc = "test"
    /\ SrvStep([srv EXCEPT !.pc = IF srv.repeat THEN "read" ELSE "done"])

\* line 73: command = ser.readline().decode("utf-8", errors="ignore").lower().strip()
SrvRead ==
    /\ srv.pc = "read"
    /\ Len(srv.lines) < MaxCommands
    /\ \E l \in RawLines :
          SrvStep([srv EXCEPT !.pc = "dispatch", !.command = Strip(Lower(Decode(l))),
                              !.lines = Append(@, l)])

\* lines 76-100: `if not command: continue` and the match statement
SrvDispatch ==
    /\ srv.pc = "dispatch"
    /\ SrvStep([srv EXCEPT !.pc =
                   IF srv.command = <<>> THEN "test"
                   ELSE IF srv.command = <<"o", "f", "f">> THEN "off"
                   ELSE IF srv.command = <<"o", "n">> THEN "on"
                   ELSE IF srv.command \in {<<"e", "x", "i", "t">>, <<"q", "u", "i", "t">>}
                        THEN "exit_off"
                   ELSE "test"])

\* line 85: GPIO.output(18, False)
SrvOff ==
    /\ srv.pc = "off"
    /\ SrvStep([srv EXCEPT !.pc = "test", !.led = "off"])

\* line 90: GPIO.output(18, True)
SrvOn ==
    /\ srv.pc = "on"
    /\ SrvStep([srv EXCEPT !.pc = "test", !.led = "on"])

\* line 94: GPIO.output(18, False)
SrvExitOff ==
    /\ srv.pc = "exit_off"
    /\ SrvStep([srv EXCEPT !.pc = "exit_cleanup", !.led = "off"])

\* line 96: GPIO.cleanup()
SrvExitCleanup ==
    /\ srv.pc = "exit_cleanup"
    /\ SrvStep([srv EXCEPT !.pc = "exit_flag", !.cleaned = @ + 1])

\* line 98: repeat = False
SrvExitFlag ==
    /\ srv.pc = "exit_flag"
    /\ SrvStep([srv EXCEPT !.pc = "test", !.repeat = FALSE])

TryBlock == {"read", "dispatch", "off", "on", "exit_off", "exit_cleanup", "exit_flag"}

\* Ctrl-C, once: caught by line 102 inside the try block, uncaught elsewhere
SrvKeyboardInterrupt ==
    /\ ~srv.intr
    /\ srv.pc \notin {"done", "crashed"}
    /\ SrvStep([srv EXCEPT !.intr = TRUE,
                           !.pc = IF srv.pc \in TryBlock THEN "h_off" ELSE "crashed"])

\* line 104: GPIO.output(18, False); RPi.GPIO raises RuntimeError for a
\* channel that GPIO.cleanup() has already released
SrvHandlerOff ==
    /\ srv.pc = "h_off"
    /\ SrvStep(IF srv.cleaned > 0 THEN [srv EXCEPT !.pc = "crashed"]
               ELSE [srv EXCEPT !.pc = "h_cleanup", !.led = "off"])

\* line 105: GPIO.cleanup()
SrvHandlerCleanup ==
    /\ srv.pc = "h_cleanup"
    /\ SrvStep([srv EXCEPT !.pc = "h_flag", !.cleaned = @ + 1])

\* line 106: repeat = False
SrvHandlerFlag ==
    /\ srv.pc = "h_flag"
    /\ SrvStep([srv EXCEPT !.pc = "test", !.repeat = FALSE])

NextServer ==
    \/ SrvTest \/ SrvRead \/ SrvDispatch \/ SrvOff \/ SrvOn
    \/ SrvExitOff \/ SrvExitCleanup \/ SrvExitFlag
    \/ SrvKeyboardInterrupt \/ SrvHandlerOff \/ SrvHandlerCleanup \/ SrvHandlerFlag

SpecServer == InitCommon /\ [][NextServer]_vars

(***************************************************************************)
(* What the specification says, stated independently of the code.          *)
(***************************************************************************)
CycleOrder == <<"off", "heat", "cool">>
CycleEdges == {<<"off", "heat">>, <<"heat", "cool">>, <<"cool", "off">>}

\* <<heat channel, cool channel>> for a mode, a temperature and a set point.
IndicatorPolicy(m, t, s) ==
    CASE m = "off" -> <<"off", "off">>
      [] m = "heat" -> <<IF t < s THEN "pulse" ELSE "on", "off">>
      [] m = "cool" -> <<"off", IF t > s THEN "pulse" ELSE "on">>

SpecMin(a, b) == IF a < b THEN a ELSE b
SpecMax(a, b) == IF a > b THEN a ELSE b

OnlyOp(o) == base.ops = [NoOps EXCEPT ![o] = 1]

\* C1: after n calls of cycle_mode() the mode is [Off, Heat, Cool][n mod 3],
\* and the mode only ever changes along Off->Heat, Heat->Cool, Cool->Off.
C1_CycleOrder ==
    [][ /\ mode' # mode => <<mode, mode'>> \in CycleEdges
        /\ Idle("h1") => mode = CycleOrder[(nCycle % 3) + 1]
        /\ Idle("h1")' => mode' = CycleOrder[(nCycle' % 3) + 1] ]_vars

C1_Witness == Idle("h1") /\ nCycle = 4 /\ mode = "heat"

\* C2: the set point is within [40, 90] in every reachable state, the
\* states inside increase_setpoint() and decrease_setpoint() included.
C2_SetPointAlwaysInRange == 40 <= setPoint /\ setPoint <= 90

\* C3: run alone from set point s, increase_setpoint() ends with
\* min(s + 1, 90) and decrease_setpoint() with max(s - 1, 40), and neither
\* can get stuck before it has returned.
C3_ClampedAdjust ==
    /\ (Idle("h1") /\ OnlyOp("inc")) => setPoint = SpecMin(base.setPoint + 1, 90)
    /\ (Idle("h1") /\ OnlyOp("dec")) => setPoint = SpecMax(base.setPoint - 1, 40)
    /\ ~Idle("h1") => ENABLED NextSeq

C3_Witness ==
    /\ Idle("h1") /\ OnlyOp("inc") /\ base.setPoint = 90 /\ setPoint = 90

\* C4: when updateLights returns, the two lights are the indicator policy
\* of the mode, the temperature and the set point.
C4_LightsMatchPolicy ==
    Idle("h1") =>
        <<redLight, blueLight>> = IndicatorPolicy(mode, FloorFahrenheit(thSensor), setPoint)

C4_Witness ==
    /\ Idle("h1") /\ mode = "heat" /\ FloorFahrenheit(thSensor) = setPoint
    /\ redLight = "on" /\ blueLight = "off"

\* C5: at the step with which a button handler returns, the lights are the
\* indicator policy of the mode and set point it leaves and of the
\* temperature it sampled.
C5_LightsCurrentAtReturn ==
    [][ (~Idle("h1") /\ Idle("h1")') =>
            <<redLight', blueLight'>> = IndicatorPolicy(mode', temp["h1"], setPoint') ]_vars

C5_Witness ==
    /\ Idle("h1") /\ OnlyOp("inc") /\ mode = "heat"
    /\ setPoint = 74 /\ redLight = "pulse"

SpecNext(m) == CASE m = "off" -> "heat" [] m = "heat" -> "cool" [] m = "cool" -> "off"

\* C6: a cycle_mode() and an increase_setpoint() racing from (m, s) end
\* with mode = next(m) and set point = min(s + 1, 90).
C6_CycleIncSerializable ==
    (AllIdle /\ base.ops = [cycle |-> 1, inc |-> 1, dec |-> 0]) =>
        /\ mode = SpecNext(base.mode)
        /\ setPoint = SpecMin(base.setPoint + 1, 90)

C6_Witness ==
    /\ AllIdle /\ base.ops = [cycle |-> 1, inc |-> 1, dec |-> 0] /\ base.overlap
    /\ base.mode = "cool" /\ base.setPoint = 90 /\ mode = "off" /\ setPoint = 90

\* C7: once a mode cycle and a set point adjustment that overlapped have
\* both returned, the lights are the indicator policy of the final mode and
\* set point.
C7_LightsMatchFinalState ==
    (AllIdle /\ base.overlap /\ base.ops.cycle = 1 /\ base.ops.inc + base.ops.dec = 1) =>
        <<redLight, blueLight>> = IndicatorPolicy(mode, FloorFahrenheit(thSensor), setPoint)

\* C8: once the refresh thread has seen endDisplay and ended, both lights
\* are off.
C8_LightsOffAfterShutdown ==
    (endDisplay /\ pc["disp"] = "d_done" /\ AllIdle) =>
        (redLight = "off" /\ blueLight = "off")

ViewKind(l) ==
    IF l = <<>> \/ l = <<"torn down">> THEN "none"
    ELSE IF l[1] = "Temp:" THEN "temp" ELSE "mode"

\* C9: from the display write of tick k until the next one, line 2 shows
\* the temperature view if k is one of ticks 1-5 of its 10-tick window and
\* the mode and set point view if it is one of ticks 6-10.
C9_Line2Alternates ==
    (tick >= 1 /\ pc["disp"] \in {"d_uart", "d_msg_temp", "d_write", "d_loop"}) =>
        ViewKind(lcd) = IF (tick - 1) % 10 < 5 THEN "temp" ELSE "mode"

C9_Witness ==
    /\ tick = 16 /\ pc["disp"] = "d_uart" /\ ViewKind(lcd) = "mode"
    /\ presses = 1 /\ Len(uart) = 0

\* C10: the refresh loop has called updateLights once for every completed
\* 10-tick window, each time while composing line 2 of tick 10, 20, 30, ...
C10_PeriodicEvalEveryTenTicks ==
    nPeriodic = IF pc["disp"] \in {"d_line2", "d_setpoint"}
                THEN (tick - 1) \div 10
                ELSE tick \div 10

C10_Witness ==
    /\ tick = 20 /\ nPeriodic = 2 /\ pc["disp"] = "d_screen" /\ presses = 0

\* C11: the k-th telegram write is made on tick 30 * k, and by the end of
\* tick t there have been t div 30 of them.
C11_TelegramEveryThirtyTicks ==
    /\ \A i \in DOMAIN uart : uart[i].tick = 30 * i
    /\ pc["disp"] = "d_loop" => Len(uart) = tick \div 30

SpecModeName(m) ==
    CASE m = "off" -> <<"O", "F", "F">>
      [] m = "heat" -> <<"H", "E", "A", "T">>
      [] m = "cool" -> <<"C", "O", "O", "L">>

SpecDigits == <<"0", "1", "2", "3", "4", "5", "6", "7", "8", "9">>

\* a number from 10 to 99 in decimal
SpecTwoDigits(n) == <<SpecDigits[(n \div 10) + 1], SpecDigits[(n % 10) + 1]>>

SpecTelegramText(m, t, s) ==
    SpecModeName(m) \o <<",">> \o SpecTwoDigits(t) \o <<",">> \o SpecTwoDigits(s) \o <<"\n">>

\* C12: a telegram is "<MODE>,<temp>,<setpoint>\n": the mode's name in upper
\* case, the floored temperature and the set point in decimal, separated by
\* single commas.
C12_TelegramFormat ==
    \A i \in DOMAIN uart :
        uart[i].msg = SpecTelegramText(mode, FloorFahrenheit(thSensor), setPoint)

C12_Witness ==
    /\ Len(uart) = 1
    /\ uart[1].msg = <<"C", "O", "O", "L", ",", "7", "0", ",", "6", "8", "\n">>
    /\ mode = "cool" /\ setPoint = 68

\* C13: after a telegram write that failed the refresh thread goes on: the
\* counter is back at 1 when the tick ends, the thread can take its next
\* step, and the next telegram write comes 30 ticks later.
C13_CycleSurvivesFailedWrite ==
    \A i \in DOMAIN uart :
        ~uart[i].ok =>
            /\ (pc["disp"] = "d_loop" /\ tick = uart[i].tick) => counter = 1
            /\ (pc["disp"] # "d_done" /\ (tick < MaxTicks \/ endDisplay)) =>
                   ENABLED manageMyDisplay
            /\ i + 1 \in DOMAIN uart => uart[i + 1].tick = uart[i].tick + 30

C13_Witness ==
    /\ Len(uart) = 2 /\ ~uart[1].ok /\ uart[1].tick = 30 /\ uart[2].tick = 60
    /\ ViewKind(lcd) = "mode"

C11_Witness ==
    /\ Len(uart) = 2 /\ uart[1].tick = 30 /\ uart[2].tick = 60 /\ uart[1].ok /\ uart[2].ok

\* C14: a failure of the sensor, the LCD or a light during a tick does not
\* end the refresh thread.
C14_FailureDoesNotEndCycle == pc["disp"] # "d_raised"

\* C15: while cycle_mode() runs alone, the light of the mode being left is
\* off from the on_exit hook on, before the state changes and before any
\* light is driven for the new mode, and the two lights are never both on
\* or pulsing.
C15_DepartingChannelOffFirst ==
    /\ redLight = "off" \/ blueLight = "off"
    /\ pc["h1"] \in {"cy_set", "cy_enter", "cy_enter_off"} =>
          /\ src["h1"] = "heat" => redLight = "off"
          /\ src["h1"] = "cool" => blueLight = "off"

C15_Witness ==
    /\ pc["h1"] = "cy_set" /\ src["h1"] = "heat" /\ mode = "heat"
    /\ redLight = "off" /\ blueLight = "off"

\* C16: once endDisplay is set the refresh thread tears the display down
\* and ends: when the process has ended the teardown call has been made
\* and the thread has returned from manageMyDisplay.
C16_TeardownBeforeProcessEnd ==
    mainpc = "exited" => lcd = <<"torn down">> /\ pc["disp"] = "d_done"

\* C17: the machine starts in mode off with set point 72; the mode is
\* written only by the state assignment of processTempStateButton, which
\* leaves the set point alone; the set point is written only by the
\* statements of processTempIncButton and processTempDecButton, which leave
\* the mode alone; a step of the refresh thread changes neither; and the
\* display and the serial port are written only by steps of the refresh
\* thread, never by a step of a button handler.
StepOf(t) == pc'[t] # pc[t]

SetPointLabels ==
    {"inc_read", "inc_write", "inc_read2", "inc_clamp",
     "dec_read", "dec_write", "dec_read2", "dec_clamp"}

C17_FrameStep ==
    /\ mode' # mode =>
          /\ \E t \in Handlers : StepOf(t) /\ pc[t] = "cy_set"
          /\ setPoint' = setPoint
    /\ setPoint' # setPoint =>
          /\ \E t \in Handlers : StepOf(t) /\ pc[t] \in SetPointLabels
          /\ mode' = mode
    /\ StepOf("disp") => mode' = mode /\ setPoint' = setPoint
    /\ (lcd' # lcd \/ uart' # uart \/ line2' # line2) =>
          /\ StepOf("disp")
          /\ \A t \in Handlers : ~StepOf(t)

C17_ControllerStateFrame ==
    /\ mode = "off" /\ setPoint = DefaultSetPoint
    /\ [][C17_FrameStep]_vars

C17_Witness ==
    /\ mode = "heat" /\ presses = 1 /\ AllIdle
    /\ Len(uart) >= 1 /\ ViewKind(lcd) = "mode"
    /\ pc["disp"] = "d_loop"

SpecInc(s) == SpecMin(s + 1, 90)
SpecDec(s) == SpecMax(s - 1, 40)

\* The set points two adjustments can leave when run one after the other.
SerialResults(s, o) ==
    IF o.inc = 2 THEN {SpecInc(SpecInc(s))}
    ELSE IF o.dec = 2 THEN {SpecDec(SpecDec(s))}
    ELSE {SpecDec(SpecInc(s)), SpecInc(SpecDec(s))}

\* C18: once two racing set point adjustments have both returned, the set
\* point is what the two leave when applied in some serial order.
C18_AdjustmentsSerializable ==
    (AllIdle /\ base.ops.inc + base.ops.dec = 2) =>
        setPoint \in SerialResults(base.setPoint, base.ops)

\* C19: every set point the refresh thread shows, in the mode and set point
\* view of line 2 and in the third field of a telegram, lies in 40..90.
C19_ObservedSetPointInRange ==
    /\ ViewKind(lcd) = "mode" => lcd[3] \in 40..90
    /\ \A i \in DOMAIN uart :
          \E m \in Modes, t \in 0..99, s \in 40..90 :
              uart[i].msg = SpecTelegramText(m, t, s)

\* What a received line asks for.
SpecMeaning(l) ==
    CASE l \in {<<"o", "n", "\n">>, <<"O", "n", "\r", "\n">>, <<"o", BadByte, "n", "\n">>} -> "on"
      [] l \in {<<"o", "f", "f", "\n">>, <<" ", "O", "F", "F", "\n">>} -> "off"
      [] l \in {<<"e", "x", "i", "t", "\n">>, <<"Q", "u", "i", "t", " ", "\n">>} -> "exit"
      [] OTHER -> "ignored"

\* The most recent "on" or "off" among the lines, "initial" if there is none.
RECURSIVE SpecLed(_)
SpecLed(ls) ==
    IF ls = <<>> THEN "initial"
    ELSE IF SpecMeaning(ls[Len(ls)]) \in {"on", "off"} THEN SpecMeaning(ls[Len(ls)])
    ELSE SpecLed(SubSeq(ls, 1, Len(ls) - 1))

ExitPositions(ls) == {i \in DOMAIN ls : SpecMeaning(ls[i]) = "exit"}

\* Between commands, with no exit and no Ctrl-C so far, the LED is the most
\* recent "on"/"off" command and the loop goes on.
LedFollowsCommands ==
    (srv.pc = "test" /\ ~srv.intr /\ ExitPositions(srv.lines) = {}) =>
        srv.led = SpecLed(srv.lines) /\ srv.repeat

\* No line is read after an exit or quit, or after a Ctrl-C.
NothingAfterExit ==
    /\ ExitPositions(srv.lines) \subseteq {Len(srv.lines)}
    /\ srv.pc = "read" => ~srv.intr

\* When the script has ended after reading at least one line, the LED has
\* been driven off and GPIO cleaned up once.
EndsOffAndCleanedUp ==
    (srv.pc \in {"done", "crashed"} /\ srv.lines # <<>>) =>
        srv.led = "off" /\ srv.cleaned = 1

\* C20: the LED follows the most recent "on"/"off" command, empty and
\* unknown lines change nothing, and after exit, quit or Ctrl-C the LED is
\* off, GPIO is cleaned up, the loop has ended and no further line is read.
C20_ServerLoop ==
    /\ LedFollowsCommands
    /\ NothingAfterExit
    /\ EndsOffAndCleanedUp

====
